---- MODULE Spec2Model ----
(***************************************************************************)
(* scrape_train_arrivals (scraping_tests/train_scraper.py): one HTTP GET,  *)
(* one HTML table, one insertion-ordered mapping station -> arrival times, *)
(* printed to the console.  Texts are sequences of one-character strings,  *)
(* so that trimming, padding and joining are computed, not assumed.        *)
(***************************************************************************)
EXTENDS Integers, Sequences, FiniteSets, TLC

\* ------------------------------------------------------------------ bounds
MaxRows == 3

\* ------------------------------------------------------------ text helpers
Whitespace == {" ", "\t"}

RECURSIVE LStrip(_)
LStrip(s) ==
  IF s = <<>> THEN s
  ELSE IF Head(s) \in Whitespace THEN LStrip(Tail(s)) ELSE s

RECURSIVE RStrip(_)
RStrip(s) ==
  IF s = <<>> THEN s
  ELSE IF s[Len(s)] \in Whitespace THEN RStrip(SubSeq(s, 1, Len(s) - 1)) ELSE s

\* element.get_text(strip=True) of an element holding one text node
get_text(el) == RStrip(LStrip(el))

\* the field width of {station:<25}
Width == 25

\* format(station, "<25"): pad on the right with spaces, never truncate
Ljust(s, w) ==
  IF Len(s) >= w THEN s ELSE s \o [i \in 1..(w - Len(s)) |-> " "]

\* ', '.join(times)
RECURSIVE Join(_)
Join(times) ==
  IF times = <<>> THEN <<>>
  ELSE IF Len(times) = 1 THEN times[1]
  ELSE times[1] \o <<",", " ">> \o Join(Tail(times))

\* --------------------------------------------------------------- the inputs
\* A row (<tr>) is its <td> elements and its <span> elements, each given by
\* its raw text, in document order.
TdChoices ==
  { <<>>,                          \* the row has no <td>
    << <<" ">>, <<"b">> >>,        \* first <td> is blank, a second one is not
    << <<" ", "a", "\t">> >>,      \* first <td> reads "a" once trimmed
    << <<"b">> >> }

SpanChoices ==
  { <<>>,                                               \* no <span> in the row
    << <<"y">> >>,
    << <<" ", "x">>, <<>>, <<"x", "\t">>, <<"y">> >> }  \* x, "", x, y

RowPool == [tds : TdChoices, spans : SpanChoices]

RECURSIVE SeqsUpTo(_, _)
SeqsUpTo(S, n) ==
  IF n = 0 THEN { <<>> }
  ELSE LET shorter == SeqsUpTo(S, n - 1)
       IN  shorter \cup { Append(q, x) : q \in { t \in shorter : Len(t) = n - 1 }, x \in S }

\* response.content: markup the parser rejects, a page without <tbody>, or a
\* page whose first <tbody> holds the given rows.
Bodies ==
  { [malformed |-> TRUE, tbodies |-> <<>>] }
  \cup { [malformed |-> FALSE, tbodies |-> <<>>] }
  \cup { [malformed |-> FALSE, tbodies |-> <<rs>>] : rs \in SeqsUpTo(RowPool, MaxRows) }

\* transport-level failures of requests.get (all RequestException subclasses)
TransportFailures == {"dns", "refused", "timeout"}

\* final status codes requests.get can hand back
Statuses == {200, 300, 404, 503}

\* ------------------------------------------------------------------- state
VARIABLES
  pc,          \* the line about to execute, "done" (returned) or "propagated"
  out,         \* what print() has written, in order
  response,    \* <<>> while unbound, else << [status, content] >>
  conn,        \* the HTTP connection: "none", "open" or "released"
  soup,        \* <<>> while unbound, else << parsed document >>
  table_body,  \* soup.find('tbody'): <<>> for None, else << rows >>
  rows,        \* table_body.find_all('tr')
  idx,         \* position of the for loop over rows
  arrivals,    \* [bound, items]: the dict, items in insertion order
  it,          \* position of the for loop over arrivals.items()
  exc,         \* <<>> or << the exception raised in the try body >>
  gets,        \* number of HTTP GETs issued
  phases       \* the phases entered, in order

vars == <<pc, out, response, conn, soup, table_body, rows, idx, arrivals, it,
          exc, gets, phases>>

Init ==
  /\ pc = "L14"
  /\ out = <<>>
  /\ response = <<>>
  /\ conn = "none"
  /\ soup = <<>>
  /\ table_body = <<>>
  /\ rows = <<>>
  /\ idx = 1
  /\ arrivals = [bound |-> FALSE, items |-> <<>>]
  /\ it = 1
  /\ exc = <<>>
  /\ gets = 0
  /\ phases = <<>>

\* ------------------------------------------------------- exception dispatch
\* variant: the catch-all clause is missing
CatchesRequestOnly(clause, type) ==
  clause = "RequestException" /\ type \in {"RequestException", "HTTPError"}

\* except requests.exceptions.RequestException / except Exception:
\* does the handler clause `clause` catch an exception of class `type`?
Catches(clause, type) ==
  \/ clause = "RequestException" /\ type \in {"RequestException", "HTTPError"}
  \/ clause = "Exception"

\* where control goes when `e` is raised inside the try body
HandlerFor(e) ==
  IF Catches("RequestException", e.type) THEN "L56"
  ELSE IF Catches("Exception", e.type) THEN "L58"
  ELSE "propagated"

\* variant: an except clause starts the run over
AfterHandlerRetry == "L14"

\* where control goes after an except clause has run: the function returns
AfterHandler == "done"

\* variant: the GET is issued with stream=True
StreamTrue == TRUE

\* requests.get(url, headers=headers): no stream argument, so stream=False
Stream == FALSE

\* state of the connection when requests.get returns a response: without
\* stream the body is read in full and the connection released inside get
ConnAfterGet(stream) == IF stream THEN "open" ELSE "released"

\* variant: only client errors are raised
Raises4xxOnly(status) == 400 <= status /\ status < 500

\* response.raise_for_status(): raises HTTPError for 4xx and 5xx
RaisesForStatus(status) == 400 <= status /\ status < 600

\* ---------------------------------------------------------------- Fetcher
PrintFetching ==
  /\ pc = "L14"
  /\ out' = Append(out, [kind |-> "fetching"])
  /\ pc' = "L15"
  /\ UNCHANGED <<response, conn, soup, table_body, rows, idx, arrivals, it,
                 exc, gets, phases>>

Get ==
  /\ pc = "L15"
  /\ gets' = gets + 1
  /\ phases' = Append(phases, "Fetch")
  /\ \/ \E f \in TransportFailures :
          /\ exc' = << [type |-> "RequestException", detail |-> f] >>
          /\ pc' = HandlerFor(exc'[1])
          /\ UNCHANGED <<response, conn>>
     \/ \E s \in Statuses, b \in Bodies :
          /\ response' = << [status |-> s, content |-> b] >>
          /\ conn' = ConnAfterGet(Stream)
          /\ pc' = "L16"
          /\ UNCHANGED exc
  /\ UNCHANGED <<out, soup, table_body, rows, idx, arrivals, it>>

RaiseForStatus ==
  /\ pc = "L16"
  /\ IF RaisesForStatus(response[1].status)
       THEN /\ exc' = << [type |-> "HTTPError",
                          detail |-> ToString(response[1].status)] >>
            /\ pc' = HandlerFor(exc'[1])
       ELSE /\ pc' = "L17"
            /\ UNCHANGED exc
  /\ UNCHANGED <<out, response, conn, soup, table_body, rows, idx, arrivals,
                 it, gets, phases>>

PrintFetched ==
  /\ pc = "L17"
  /\ out' = Append(out, [kind |-> "fetched"])
  /\ pc' = "L19"
  /\ UNCHANGED <<response, conn, soup, table_body, rows, idx, arrivals, it,
                 exc, gets, phases>>

\* --------------------------------------------------------------- Extractor
\* node.find(name): the first element of that kind, or None (<<>>)
Find(elements) == IF elements = <<>> THEN <<>> ELSE << elements[1] >>

\* variant: the missing-table test is dropped
TableNeverMissing(tb) == FALSE

\* `not table_body`: None is falsy, a Tag is always truthy
TableMissing(tb) == tb = <<>>

\* variant: the test on time_cells is dropped
HasCellOnly(station_cell, time_cells) == station_cell # <<>>

\* `station_cell and time_cells`: a Tag is truthy, an empty result list falsy
HasCellAndTimes(station_cell, time_cells) ==
  station_cell # <<>> /\ time_cells # <<>>

\* variant: markers with empty text are filtered out
ArrivalTimesNonEmpty(time_cells) ==
  SelectSeq([k \in 1..Len(time_cells) |-> get_text(time_cells[k])],
            LAMBDA t : t # <<>>)

\* [time.get_text(strip=True) for time in time_cells]
ArrivalTimes(time_cells) ==
  [k \in 1..Len(time_cells) |-> get_text(time_cells[k])]

\* variant: setdefault, the first value of a key is kept
DictSetDefault(items, k, v) ==
  IF \E i \in 1..Len(items) : items[i].key = k
    THEN items
    ELSE Append(items, [key |-> k, value |-> v])

\* variant: an overwritten key is removed and inserted again at the end
DictMoveToEnd(items, k, v) ==
  Append(SelectSeq(items, LAMBDA e : e.key # k), [key |-> k, value |-> v])

\* arrivals[station_name] = arrival_times on an insertion-ordered dict: an
\* existing key keeps its position and takes the new value, a new key goes last
DictSetItem(items, k, v) ==
  IF \E i \in 1..Len(items) : items[i].key = k
    THEN [i \in 1..Len(items) |->
            IF items[i].key = k THEN [key |-> k, value |-> v] ELSE items[i]]
    ELSE Append(items, [key |-> k, value |-> v])

\* lines 19: BeautifulSoup(response.content, 'html.parser')
Parse ==
  /\ pc = "L19"
  /\ phases' = Append(phases, "Extract")
  /\ conn' = "released"
  /\ IF response[1].content.malformed
       THEN /\ exc' = << [type |-> "ParserRejectedMarkup", detail |-> "markup"] >>
            /\ pc' = HandlerFor(exc'[1])
            /\ UNCHANGED soup
       ELSE /\ soup' = << response[1].content >>
            /\ pc' = "L22"
            /\ UNCHANGED exc
  /\ UNCHANGED <<out, response, table_body, rows, idx, arrivals, it, gets>>

\* lines 22-26: find the tbody; without one print the message and return
FindTable ==
  /\ pc = "L22"
  /\ table_body' = Find(soup[1].tbodies)
  /\ IF TableMissing(table_body')
       THEN /\ out' = Append(out, [kind |-> "table_not_found"])
            /\ pc' = "done"
       ELSE /\ pc' = "L28"
            /\ UNCHANGED out
  /\ UNCHANGED <<response, conn, soup, rows, idx, arrivals, it, exc, gets, phases>>

\* lines 28-32: arrivals = {}; rows = table_body.find_all('tr'); print count
InitRows ==
  /\ pc = "L28"
  /\ arrivals' = [bound |-> TRUE, items |-> <<>>]
  /\ IF table_body = <<>>
       THEN \* None.find_all raises AttributeError
            /\ exc' = << [type |-> "AttributeError", detail |-> "find_all"] >>
            /\ pc' = HandlerFor(exc'[1])
            /\ UNCHANGED <<rows, out, idx>>
       ELSE /\ rows' = table_body[1]
            /\ out' = Append(out, [kind |-> "found", n |-> Len(rows')])
            /\ idx' = 1
            /\ pc' = "L34"
            /\ UNCHANGED exc
  /\ UNCHANGED <<response, conn, soup, table_body, it, gets, phases>>

\* lines 34-45: one iteration of `for row in rows`
ProcessRow ==
  /\ pc = "L34"
  /\ idx <= Len(rows)
  /\ LET row          == rows[idx]
         station_cell == Find(row.tds)
         time_cells   == row.spans
     IN  IF HasCellAndTimes(station_cell, time_cells)
           THEN LET station_name  == get_text(station_cell[1])
                    arrival_times == ArrivalTimes(time_cells)
                IN  IF station_name # <<>>
                      THEN arrivals' = [arrivals EXCEPT
                             !.items = DictSetItem(@, station_name, arrival_times)]
                      ELSE UNCHANGED arrivals
           ELSE UNCHANGED arrivals
  /\ idx' = idx + 1
  /\ UNCHANGED <<pc, out, response, conn, soup, table_body, rows, it, exc,
                 gets, phases>>

\* the for loop over rows is exhausted
EndRows ==
  /\ pc = "L34"
  /\ idx > Len(rows)
  /\ pc' = "L47"
  /\ UNCHANGED <<out, response, conn, soup, table_body, rows, idx, arrivals,
                 it, exc, gets, phases>>

\* ---------------------------------------------------------------- Reporter
\* variant: the emptiness test is dropped
AlwaysHasEntries(items) == TRUE

\* `if arrivals:` an empty dict is falsy
HasEntries(items) == items # <<>>

\* line 50: the f-string, kept as its two computed fields
FormatEntry(station, times) ==
  [kind |-> "entry", station |-> Ljust(station, Width), arrivals |-> Join(times)]

PrintHeader ==
  /\ pc = "L47"
  /\ phases' = Append(phases, "Report")
  /\ out' = Append(out, [kind |-> "header"])
  /\ pc' = "L48"
  /\ UNCHANGED <<response, conn, soup, table_body, rows, idx, arrivals, it,
                 exc, gets>>

\* lines 48, 51-52
TestArrivals ==
  /\ pc = "L48"
  /\ IF HasEntries(arrivals.items)
       THEN /\ it' = 1
            /\ pc' = "L49"
            /\ UNCHANGED out
       ELSE /\ out' = Append(out, [kind |-> "no_data"])
            /\ pc' = "L53"
            /\ UNCHANGED it
  /\ UNCHANGED <<response, conn, soup, table_body, rows, idx, arrivals, exc,
                 gets, phases>>

\* lines 49-50: one iteration of `for station, times in arrivals.items()`
PrintEntry ==
  /\ pc = "L49"
  /\ it <= Len(arrivals.items)
  /\ out' = Append(out, FormatEntry(arrivals.items[it].key, arrivals.items[it].value))
  /\ it' = it + 1
  /\ UNCHANGED <<pc, response, conn, soup, table_body, rows, idx, arrivals,
                 exc, gets, phases>>

EndEntries ==
  /\ pc = "L49"
  /\ it > Len(arrivals.items)
  /\ pc' = "L53"
  /\ UNCHANGED <<out, response, conn, soup, table_body, rows, idx, arrivals,
                 it, exc, gets, phases>>

PrintFooter ==
  /\ pc = "L53"
  /\ out' = Append(out, [kind |-> "footer"])
  /\ pc' = "done"
  /\ UNCHANGED <<response, conn, soup, table_body, rows, idx, arrivals, it,
                 exc, gets, phases>>

\* ---------------------------------------------------------------- handlers
\* lines 56-57
ExceptRequest ==
  /\ pc = "L56"
  /\ out' = Append(out, [kind |-> "fetch_error", detail |-> exc[1].detail])
  /\ pc' = AfterHandler
  /\ UNCHANGED <<response, conn, soup, table_body, rows, idx, arrivals, it,
                 exc, gets, phases>>

\* lines 58-59
ExceptAny ==
  /\ pc = "L58"
  /\ out' = Append(out, [kind |-> "unexpected_error", detail |-> exc[1].detail])
  /\ pc' = AfterHandler
  /\ UNCHANGED <<response, conn, soup, table_body, rows, idx, arrivals, it,
                 exc, gets, phases>>

\* the statements of the try body (lines 14-53)
TryBody == {"L14", "L15", "L16", "L17", "L19", "L22", "L28", "L34", "L47",
            "L48", "L49", "L53"}

\* any statement of the try body raises some other Exception before it takes
\* effect (an encoding error in print, a recursion error in the parser, ...)
Fault ==
  /\ pc \in TryBody
  /\ exc' = << [type |-> "Exception", detail |-> pc] >>
  /\ pc' = HandlerFor(exc'[1])
  /\ UNCHANGED <<out, response, conn, soup, table_body, rows, idx, arrivals,
                 it, gets, phases>>

\* ----------------------------------------------------------- specifications
Next ==
  \/ PrintFetching
  \/ Get
  \/ RaiseForStatus
  \/ PrintFetched
  \/ Parse
  \/ FindTable
  \/ InitRows
  \/ ProcessRow
  \/ EndRows
  \/ PrintHeader
  \/ TestArrivals
  \/ PrintEntry
  \/ EndEntries
  \/ PrintFooter
  \/ ExceptRequest
  \/ ExceptAny

\* runs in which only the fetch and the parser can fail
Spec == Init /\ [][Next]_vars

NextFault == Next \/ Fault

\* runs in which, besides, any statement of the try body may raise
SpecFault == Init /\ [][NextFault]_vars

\* ------------------------------------------------- vocabulary of the claims
\* t is raw without its leading and trailing whitespace
IsTrimOf(t, raw) ==
  \E i \in 1..(Len(raw) + 1), j \in 0..Len(raw) :
    /\ t = SubSeq(raw, i, j)
    /\ \A k \in 1..Len(raw) : (k < i \/ k > j) => raw[k] \in Whitespace
    /\ t = <<>> \/ (t[1] \notin Whitespace /\ t[Len(t)] \notin Whitespace)

Trimmed(raw) ==
  CHOOSE t \in { SubSeq(raw, i, j) : i \in 1..(Len(raw) + 1), j \in 0..Len(raw) } :
    IsTrimOf(t, raw)

\* a row that names a station and carries at least one time marker
ValidRow(r) ==
  /\ r.tds # <<>>
  /\ Trimmed(r.tds[1]) # <<>>
  /\ r.spans # <<>>

NameOf(r) == Trimmed(r.tds[1])

TimesOf(r) == [k \in 1..Len(r.spans) |-> Trimmed(r.spans[k])]

\* number of rows the loop has gone through
Seen == idx - 1

\* positions, among the first n rows of rs, of the valid rows named name
ValidAt(rs, n, name) ==
  { m \in 1..n : ValidRow(rs[m]) /\ NameOf(rs[m]) = name }

ValidNames(rs, n) == { NameOf(rs[m]) : m \in { k \in 1..n : ValidRow(rs[k]) } }

Max(S) == CHOOSE x \in S : \A y \in S : y <= x
Min(S) == CHOOSE x \in S : \A y \in S : x <= y

\* the valid names of rs in the order of their first valid row
RECURSIVE FirstOrder(_, _)
FirstOrder(rs, n) ==
  IF n = 0 THEN <<>>
  ELSE LET before == FirstOrder(rs, n - 1)
       IN  IF ValidRow(rs[n]) /\ ValidAt(rs, n - 1, NameOf(rs[n])) = {}
             THEN Append(before, NameOf(rs[n]))
             ELSE before

Keys == { arrivals.items[i].key : i \in DOMAIN arrivals.items }

Kinds(ks) == SelectSeq(out, LAMBDA m : m.kind \in ks)

Printed(k) == \E i \in DOMAIN out : out[i].kind = k

Entered(ph) == \E i \in DOMAIN phases : phases[i] = ph

Returned == pc = "done"

\* ------------------------------------------------------------------ claims
\* C1 (row validity): every key of arrivals is the non-empty trimmed text of
\* the first <td> of some row already processed that also holds a <span>;
\* and processing a row with no <td>, a blank first <td> or no <span>
\* leaves arrivals exactly as it was.
C1_KeysFromValidRows ==
  \A name \in Keys :
    /\ name # <<>>
    /\ \E m \in 1..Seen :
         /\ rows[m].tds # <<>>
         /\ IsTrimOf(name, rows[m].tds[1])
         /\ rows[m].spans # <<>>

C1_RowValidity ==
  /\ [] C1_KeysFromValidRows
  /\ [][ (pc = "L34" /\ idx' = idx + 1 /\ ~ValidRow(rows[idx]))
           => arrivals' = arrivals ]_vars

\* the loop has skipped a named row without markers and an unnamed row with
\* markers, and kept a valid one
C1_Witness ==
  /\ pc = "L47"
  /\ Keys # {}
  /\ \E m \in 1..Seen :
       rows[m].tds # <<>> /\ Trimmed(rows[m].tds[1]) # <<>> /\ rows[m].spans = <<>>
  /\ \E m \in 1..Seen :
       (rows[m].tds = <<>> \/ Trimmed(rows[m].tds[1]) = <<>>) /\ rows[m].spans # <<>>

\* C2 (overwrite semantics): for every name carried by a valid processed row
\* the mapping holds exactly one entry, whose time list is that of the last
\* such row; no key occurs twice.
C2_LastRowWins ==
  /\ \A i, j \in DOMAIN arrivals.items :
       arrivals.items[i].key = arrivals.items[j].key => i = j
  /\ \A name \in ValidNames(rows, Seen) :
       \E i \in DOMAIN arrivals.items :
         /\ arrivals.items[i].key = name
         /\ arrivals.items[i].value = TimesOf(rows[Max(ValidAt(rows, Seen, name))])

\* two valid rows with the same name and different time lists were processed
C2_Witness ==
  /\ pc = "L47"
  /\ \E m, n \in 1..Seen :
       /\ m < n
       /\ ValidRow(rows[m]) /\ ValidRow(rows[n])
       /\ NameOf(rows[m]) = NameOf(rows[n])
       /\ TimesOf(rows[m]) # TimesOf(rows[n])

\* C3 (order preservation): processing a valid row stores, under its name, a
\* list as long as the row's <span> list whose k-th element is the trimmed
\* text of the k-th <span>.
C3_TimesElementwise ==
  [][ (pc = "L34" /\ idx' = idx + 1 /\ ValidRow(rows[idx])) =>
        \E i \in DOMAIN arrivals'.items :
          /\ arrivals'.items[i].key = NameOf(rows[idx])
          /\ Len(arrivals'.items[i].value) = Len(rows[idx].spans)
          /\ \A k \in 1..Len(rows[idx].spans) :
               IsTrimOf(arrivals'.items[i].value[k], rows[idx].spans[k]) ]_vars

\* a stored list with a repeated marker, an empty marker and a later distinct one
C3_Witness ==
  \E i \in DOMAIN arrivals.items :
    arrivals.items[i].value = << <<"x">>, <<>>, <<"x">>, <<"y">> >>

\* C4 as first stated (transport failure): whenever the fetch has failed, by
\* a transport failure or by a status outside the success range 2xx, the
\* Extractor is never entered.
C4_AnyNonSuccessStatusStops ==
  ( \/ (exc # <<>> /\ exc[1].type = "RequestException")
    \/ (response # <<>> /\ ~(200 <= response[1].status /\ response[1].status < 300)) )
  => ~Entered("Extract")

\* the fetch failed: requests.get raised, or the status is 4xx or 5xx and
\* raise_for_status has run
FetchFailed ==
  \/ (exc # <<>> /\ exc[1].type = "RequestException")
  \/ /\ response # <<>>
     /\ response[1].status \in 400..599
     /\ pc # "L16"

\* C4 as amended: whenever the fetch has failed, by a transport failure or by
\* a 4xx or 5xx status, nothing of the Extractor or Reporter has happened or
\* will, and the run ends having printed, last, the fetch-error message that
\* carries the failure's detail (the transport failure or the status).
C4_FetchFailureStops ==
  FetchFailed =>
    /\ pc \in {"L56", "done"}
    /\ ~Entered("Extract") /\ ~Entered("Report")
    /\ soup = <<>> /\ table_body = <<>> /\ rows = <<>> /\ idx = 1
    /\ ~arrivals.bound
    /\ Kinds({"found", "header", "entry", "no_data", "footer",
              "table_not_found", "unexpected_error"}) = <<>>
    /\ Returned =>
         /\ Len(Kinds({"fetch_error"})) = 1
         /\ out[Len(out)].kind = "fetch_error"
         /\ out[Len(out)].detail =
              IF response # <<>> THEN ToString(response[1].status)
              ELSE exc[1].detail
         /\ response = <<>> => out[Len(out)].detail \in TransportFailures

\* a run that ended on a 5xx answer
C4_Witness ==
  /\ Returned
  /\ response # <<>> /\ response[1].status = 503
  /\ Printed("fetch_error")

\* C5 (missing table): once the document is parsed and has no <tbody>, the
\* run only looks the table up and returns: it prints the table-not-found
\* message once, raises nothing, builds no mapping, processes no row and
\* prints no row count, banner, entry line, no-data or error message.
C5_MissingTable ==
  (soup # <<>> /\ soup[1].tbodies = <<>>) =>
    /\ pc \in {"L22", "done"}
    /\ exc = <<>>
    /\ ~arrivals.bound /\ rows = <<>> /\ idx = 1
    /\ ~Entered("Report")
    /\ Kinds({"found", "header", "entry", "no_data", "footer",
              "fetch_error", "unexpected_error"}) = <<>>
    /\ Returned =>
         /\ Len(Kinds({"table_not_found"})) = 1
         /\ out[Len(out)].kind = "table_not_found"

C5_Witness ==
  /\ Returned
  /\ soup # <<>> /\ soup[1].tbodies = <<>>
  /\ Printed("table_not_found")

\* C6 (empty table): a run that found a <tbody> none of whose rows is valid
\* (there may be none at all) returns with an empty mapping, having printed
\* header, the no-data message, footer, in that order and once each, and no
\* entry line, table-not-found or error message.
C6_EmptyTable ==
  ( /\ Returned
    /\ table_body # <<>>
    /\ \A m \in 1..Len(table_body[1]) : ~ValidRow(table_body[1][m]) )
  =>
    /\ arrivals.bound /\ arrivals.items = <<>>
    /\ Kinds({"header", "entry", "no_data", "footer", "table_not_found",
              "fetch_error", "unexpected_error"})
         = << [kind |-> "header"], [kind |-> "no_data"], [kind |-> "footer"] >>

\* a run over a table whose rows are all invalid
C6_Witness ==
  /\ Returned
  /\ table_body # <<>> /\ Len(table_body[1]) >= 2
  /\ \A m \in 1..Len(table_body[1]) : ~ValidRow(table_body[1][m])
  /\ Printed("no_data")

\* a run over a table with no row
C6_WitnessNoRows ==
  /\ Returned
  /\ table_body # <<>> /\ table_body[1] = <<>>
  /\ Printed("no_data")

\* C7 (resource release): in every run in which requests.get returned a
\* response, the connection is released by the time the run has ended, however
\* it ended (report, missing table, status error, unexpected error).
C7_ResponseReleased ==
  (pc \in {"done", "propagated"} /\ response # <<>>) => conn = "released"

\* a run that got a response and ended in the status-error handler
C7_Witness ==
  /\ Returned
  /\ response # <<>>
  /\ exc # <<>> /\ exc[1].type = "HTTPError"
  /\ conn = "released"

\* a bound on the number of steps still to run, from the position in the code
StepsLeft ==
  LET early == 2 * MaxRows + 8
  IN  CASE pc = "L14" -> early + 7
        [] pc = "L15" -> early + 6
        [] pc = "L16" -> early + 5
        [] pc = "L17" -> early + 4
        [] pc = "L19" -> early + 3
        [] pc = "L22" -> early + 2
        [] pc = "L28" -> early + 1
        [] pc = "L34" -> 7 + Len(rows) + (Len(rows) + 1 - idx)
        [] pc = "L47" -> 6 + Len(rows)
        [] pc = "L48" -> 5 + Len(rows)
        [] pc = "L49" -> 4 + (Len(arrivals.items) + 1 - it)
        [] pc = "L53" -> 3
        [] pc \in {"L56", "L58"} -> 1
        [] OTHER -> 0

C9_ReportOrder ==
  (Returned /\ Printed("footer") /\ arrivals.items # <<>>) =>
    LET names   == FirstOrder(rows, Len(rows))
        entries == Kinds({"entry"})
    IN  /\ Len(entries) = Cardinality(ValidNames(rows, Len(rows)))
        /\ Len(entries) = Len(names)
        /\ \A i \in 1..Len(names) :
             /\ entries[i].station = Ljust(names[i], Width)
             /\ entries[i].arrivals =
                  Join(TimesOf(rows[Max(ValidAt(rows, Len(rows), names[i]))]))
        /\ \A i, j \in 1..Len(names) :
             i < j <=> Min(ValidAt(rows, Len(rows), names[i]))
                         < Min(ValidAt(rows, Len(rows), names[j]))

\* station A, then station B, then A again with other times, all reported
C9_Witness ==
  /\ Returned /\ Printed("footer")
  /\ \E m, n, p \in 1..Len(rows) :
       /\ m < n /\ n < p
       /\ ValidRow(rows[m]) /\ ValidRow(rows[n]) /\ ValidRow(rows[p])
       /\ NameOf(rows[m]) = NameOf(rows[p])
       /\ NameOf(rows[m]) # NameOf(rows[n])
       /\ TimesOf(rows[m]) # TimesOf(rows[p])

IsPrefix(p, q) == Len(p) <= Len(q) /\ \A i \in 1..Len(p) : p[i] = q[i]

\* the outcomes a finished run shows
Outcomes ==
  { k \in {"fetch_error", "unexpected_error", "table_not_found"} : Printed(k) }
  \cup (IF Printed("header") /\ Printed("footer") THEN {"report"} ELSE {})

====
